---- MODULE Spec2Model ----
(***************************************************************************)
(* Model of the Gas Town Discord bot:                                      *)
(*   - ChannelManager (channel_manager.py): rig -> channel resolution with *)
(*     an in-memory mapping, a JSON mapping file and a guild directory;    *)
(*   - _sanitize_channel_name as a pure function on character sequences;   *)
(*   - the send_discord_message tool handler (bot.py);                     *)
(*   - format_event and the formatters it dispatches to (formatter.py).    *)
(*                                                                         *)
(* A Python str is a sequence of one-character strings.  A dict is a       *)
(* function whose DOMAIN is the set of its keys.                           *)
(***************************************************************************)
EXTENDS Integers, Sequences, FiniteSets, TLC

VARIABLES
    mappings,     \* ChannelManager.mappings: rig name -> channel id
    file,         \* the mapping file on disk: [state, content]
    guild,        \* the guild directory: set of channels [id, name, kind]
    nextId,       \* next channel id the platform hands out
    calls,        \* per task slot: the coroutine running in it, with its history
    started,      \* number of calls started so far
    lastWriteOk,  \* whether the most recent _save_mappings succeeded
    faultsLeft,   \* failed writes the environment may still produce
    deletesLeft,  \* channels someone else may still delete
    sIn,          \* sanitize: the input string
    sOut,         \* sanitize: _sanitize_channel_name(sIn)
    sOut2,        \* sanitize: _sanitize_channel_name(sOut)
    sPc,          \* sanitize: "input", "once", "twice"
    ready,        \* bot: DiscordClient.ready is set
    tReq,         \* bot: the tool request [name, arguments]
    tPc,          \* bot: where call_tool stands
    tChan,        \* bot: the channel send_message found
    tResp,        \* bot: what call_tool handed back, or what it raised
    posted,       \* bot: messages delivered, as <<channel name, content>>
    fKind,        \* formatter: the event_type given to format_event
    fArgs,        \* formatter: the keyword arguments given to format_event
    fNow,         \* formatter: what datetime.utcnow() returned
    fOut,         \* formatter: the embed returned, or the exception raised
    fPc           \* formatter: "idle", "done"

resolverVars == <<mappings, file, guild, nextId, calls, started, lastWriteOk,
                  faultsLeft, deletesLeft>>
sanitizeVars == <<sIn, sOut, sOut2, sPc>>
toolVars == <<ready, tReq, tPc, tChan, tResp, posted>>
formatVars == <<fKind, fArgs, fNow, fOut, fPc>>
nonResolverVars == <<sanitizeVars, toolVars, formatVars>>

(***************************************************************************)
(* Bounds of the model.                                                    *)
(***************************************************************************)
MaxCalls == 3        \* calls started in one behaviour
MaxInFlight == 2     \* task slots of the concurrent specification
MaxIoFaults == 1     \* failed writes in one behaviour
MaxExtDeletes == 1   \* channels deleted from outside in one behaviour
MaxLen == 3          \* length of a sanitize input

(***************************************************************************)
(* Characters and str methods.                                             *)
(***************************************************************************)
AsciiLower == {"a","b","c","d","e","f","g","h","i","j","k","l","m","n","o","p",
               "q","r","s","t","u","v","w","x","y","z"}
AsciiUpper == {"A","B","C","D","E","F","G","H","I","J","K","L","M","N","O","P",
               "Q","R","S","T","U","V","W","X","Y","Z"}
AsciiDigits == {"0","1","2","3","4","5","6","7","8","9"}
\* The Latin-1 characters above ASCII for which str.isalnum() is True: the
\* letters, the superscript digits and the fractions.
Latin1Alnum == {"ª", "²", "³", "µ", "¹", "º", "¼", "½", "¾", "À", "Á", "Â", "Ã", "Ä", "Å", "Æ",
                "Ç", "È", "É", "Ê", "Ë", "Ì", "Í", "Î", "Ï", "Ð", "Ñ", "Ò", "Ó", "Ô", "Õ", "Ö",
                "Ø", "Ù", "Ú", "Û", "Ü", "Ý", "Þ", "ß", "à", "á", "â", "ã", "ä", "å", "æ", "ç",
                "è", "é", "ê", "ë", "ì", "í", "î", "ï", "ð", "ñ", "ò", "ó", "ô", "õ", "ö", "ø",
                "ù", "ú", "û", "ü", "ý", "þ", "ÿ"}

\* The capitals that lower() changes and, at the same index, what it gives.
CaseUpper == <<"A", "B", "C", "D", "E", "F", "G", "H", "I", "J", "K", "L", "M", "N", "O", "P",
              "Q", "R", "S", "T", "U", "V", "W", "X", "Y", "Z", "À", "Á", "Â", "Ã", "Ä", "Å",
              "Æ", "Ç", "È", "É", "Ê", "Ë", "Ì", "Í", "Î", "Ï", "Ð", "Ñ", "Ò", "Ó", "Ô", "Õ",
              "Ö", "Ø", "Ù", "Ú", "Û", "Ü", "Ý", "Þ",
              "U+039C", "U+0178">>
CaseLower == <<"a", "b", "c", "d", "e", "f", "g", "h", "i", "j", "k", "l", "m", "n", "o", "p",
              "q", "r", "s", "t", "u", "v", "w", "x", "y", "z", "à", "á", "â", "ã", "ä", "å",
              "æ", "ç", "è", "é", "ê", "ë", "ì", "í", "î", "ï", "ð", "ñ", "ò", "ó", "ô", "õ",
              "ö", "ø", "ù", "ú", "û", "ü", "ý", "þ",
              "U+03BC", "ÿ">>

\* the same as functions: capital -> small letter, small -> capital letter
ToLower ==
    [c \in {CaseUpper[i] : i \in DOMAIN CaseUpper} |->
        CaseLower[CHOOSE i \in DOMAIN CaseUpper : CaseUpper[i] = c]]
ToUpper ==
    [c \in {CaseLower[i] : i \in DOMAIN CaseLower} |->
        CaseUpper[CHOOSE i \in DOMAIN CaseLower : CaseLower[i] = c]]

\* str.lower() on one character
LowerChar(c) == IF c \in DOMAIN ToLower THEN ToLower[c] ELSE c

\* str.lower()
Lower(str) == [i \in 1..Len(str) |-> LowerChar(str[i])]

\* str.replace(' ', '-')
ReplaceSpaces(str) == [i \in 1..Len(str) |-> IF str[i] = " " THEN "-" ELSE str[i]]

\* c.isalnum(); also true of the letters beyond Latin-1 that upper() and
\* lower() of a Latin-1 letter lead to, written by code point: capital mu,
\* small mu, capital y with diaeresis
IsAlnum(c) ==
    \/ c \in AsciiLower \/ c \in AsciiUpper \/ c \in AsciiDigits
    \/ c \in Latin1Alnum
    \/ c \in {"U+039C", "U+03BC", "U+0178"}

\* c.isalnum() or c in '-_'
KeepChar(c) == IsAlnum(c) \/ c \in {"-", "_"}

\* ''.join(c for c in name if c.isalnum() or c in '-_')
KeepValid(str) == SelectSeq(str, KeepChar)

Prefix == <<"g", "t", "-">>

\* A plausible slip: the prefix is forgotten.
SanitizeNoPrefix(rig_name) == KeepValid(ReplaceSpaces(Lower(rig_name)))

\* ChannelManager._sanitize_channel_name
SanitizeChannelName(rig_name) ==
    Prefix \o KeepValid(ReplaceSpaces(Lower(rig_name)))

(***************************************************************************)
(* dict helpers.                                                           *)
(***************************************************************************)
EmptyDict == [k \in {} |-> 0]

\* d[k] = v
DictSet(d, k, v) == [x \in DOMAIN d \cup {k} |-> IF x = k THEN v ELSE d[x]]

\* A plausible slip: the entry is left in place.
DictDelKeeps(d, k) == d

\* del d[k]
DictDel(d, k) == [x \in DOMAIN d \ {k} |-> d[x]]

(***************************************************************************)
(* ChannelManager: state.                                                  *)
(***************************************************************************)
MyRig == <<"m","y","-","r","i","g">>            \* "my-rig"
MyRigSpaced == <<"M","y"," ","R","i","g">>      \* "My Rig": same channel name
Cafe == <<"C","a","f","é">>                     \* "Café"
Rigs == {MyRig, MyRigSpaced, Cafe}

GtMyRig == <<"g","t","-","m","y","-","r","i","g">>   \* "gt-my-rig"

\* Channels the guild may hold when the manager is constructed.
InitChannels == {[id |-> 1, name |-> GtMyRig, kind |-> "text"],
                 [id |-> 2, name |-> GtMyRig, kind |-> "voice"]}
InitIds == {1, 2}

\* Mappings a previous run may have left in the file: empty, or an entry for
\* "my-rig".
InitMappings == {EmptyDict} \cup {[k \in {MyRig} |-> i] : i \in InitIds}

NoChannel == [id |-> 0, name |-> <<>>, kind |-> "none"]
None == "None"

IdleCall == [op |-> "none", rig |-> <<>>, pc |-> "idle", chan |-> NoChannel,
             result |-> None, n |-> 0, created |-> 0, deleted |-> 0,
             saves |-> 0, evicted |-> FALSE, peers |-> {},
             startMappings |-> EmptyDict, startGuild |-> {}, startFile |-> None]

Finished == {"idle", "returned", "raised", "cancelled"}
Suspended == {"create", "send", "delete"}

InFlight(s) == calls[s].pc \in Suspended

\* A plausible slip: the lookup never finds the channel.
GetChannelMisses(g, channel_id) == {}

\* guild.get_channel(channel_id): the channels with that id (none or one)
GetChannel(g, channel_id) == {ch \in g : ch.id = channel_id}

\* guild.text_channels
TextChannels(g) == {ch \in g : ch.kind = "text"}

\* A plausible slip: the search by name finds nothing.
FirstNamedMisses(g, channel_name) == NoChannel

\* the first channel of guild.text_channels with that name; the platform lists
\* a new channel after the older ones, so the first is the one of least id
FirstNamed(g, channel_name) ==
    LET found == {ch \in TextChannels(g) : ch.name = channel_name}
    IN  IF found = {} THEN NoChannel
        ELSE CHOOSE ch \in found : \A o \in found : ch.id <= o.id

\* ChannelManager._load_mappings: a missing or unparsable file loads as {}
LoadMappings(f) == IF f.state = "ok" THEN f.content ELSE EmptyDict

\* Outcomes of one _save_mappings: the file is rewritten; open() fails and
\* the file is untouched; or open(.., 'w') has truncated the file and the
\* write then fails, which leaves a truncated file behind.
WriteOutcomes == {"ok", "open_failed", "write_failed"}

\* ChannelManager._save_mappings: the file after writing m with outcome o
SaveMappings(m, f, o) ==
    CASE o = "ok" -> [state |-> "ok", content |-> m]
      [] o = "open_failed" -> f
      [] OTHER -> [state |-> "partial", content |-> EmptyDict]

Faults(o) == IF o = "ok" THEN 0 ELSE 1

\* what the file holds, read the way _load_mappings reads it
FileMapping == LoadMappings(file)

\* the calls in flight when a new one starts
InFlightNumbers == {calls[t].n : t \in {u \in DOMAIN calls : InFlight(u)}}

\* a new call in slot s, overlapping the calls in flight
NewCall(s, op, r) ==
    [IdleCall EXCEPT !.op = op, !.rig = r, !.n = started + 1,
                     !.peers = InFlightNumbers,
                     !.startMappings = mappings, !.startGuild = guild,
                     !.startFile = file]

\* the other slots learn of the call that starts in slot s
WithPeer(cs, s) ==
    [t \in DOMAIN cs |->
        IF t # s /\ cs[t].pc \in Suspended
        THEN [cs[t] EXCEPT !.peers = @ \cup {started + 1}]
        ELSE cs[t]]

CanStart(s) ==
    /\ calls[s].pc \in Finished
    /\ started < MaxCalls

(***************************************************************************)
(* ChannelManager.__init__: the mapping is loaded from the file.           *)
(***************************************************************************)
InitResolver(slots, initMappings, faults, deletes) ==
    /\ guild \in SUBSET InitChannels
    /\ \E m \in initMappings :
         file \in {[state |-> "ok", content |-> m]} \cup
                  (IF m = EmptyDict
                   THEN {[state |-> "absent", content |-> EmptyDict]} ELSE {})
    /\ mappings = LoadMappings(file)
    /\ nextId = 3
    /\ calls = [s \in 1..slots |-> IdleCall]
    /\ started = 0
    /\ lastWriteOk = TRUE
    /\ faultsLeft = faults
    /\ deletesLeft = deletes

InitSanitizeIdle ==
    /\ sIn = <<>> /\ sOut = <<>> /\ sOut2 = <<>> /\ sPc = "off"

NoRequest == [name |-> "", arguments |-> EmptyDict]
NoResponse == [kind |-> "none", text |-> <<>>]

\* no tool request is made
InitToolIdle ==
    /\ ready = FALSE /\ tReq = NoRequest /\ tPc = "off"
    /\ tChan = "" /\ tResp = NoResponse /\ posted = {}

\* format_event is not called
InitFormatIdle ==
    /\ fKind = <<>> /\ fArgs = EmptyDict /\ fNow = 0
    /\ fOut = [kind |-> "none"] /\ fPc = "off"

\* no ChannelManager is constructed
InitResolverIdle ==
    /\ guild = {} /\ file = [state |-> "absent", content |-> EmptyDict]
    /\ mappings = EmptyDict /\ nextId = 3 /\ calls = [s \in {} |-> IdleCall]
    /\ started = 0 /\ lastWriteOk = TRUE /\ faultsLeft = 0 /\ deletesLeft = 0

(***************************************************************************)
(* get_or_create_channel up to its first await (lines 58-81, 93-96).       *)
(* o1 is the outcome of the write after an eviction, o2 of the write after *)
(* a name match.                                                           *)
(***************************************************************************)
GetOrCreateChannel(s, rig_name, o1, o2) ==
    /\ CanStart(s)
    /\ LET cached == rig_name \in DOMAIN mappings
           hit == IF cached
                  THEN {ch \in GetChannel(guild, mappings[rig_name]) :
                            ch.kind = "text"}
                  ELSE {}
           \* lines 66-69: the channel was deleted, remove from mappings
           m1 == IF cached THEN DictDel(mappings, rig_name) ELSE mappings
           f1 == IF cached THEN SaveMappings(m1, file, o1) ELSE file
           n1 == IF cached THEN Faults(o1) ELSE 0
           \* lines 72-78: search by name
           channel_name == SanitizeChannelName(rig_name)
           found == FirstNamed(guild, channel_name)
           m2 == DictSet(m1, rig_name, found.id)
           f2 == SaveMappings(m2, f1, o2)
           c0 == NewCall(s, "resolve", rig_name)
           cs == WithPeer(calls, s)
       IN  IF hit # {}
           THEN \* line 65
                /\ o1 = "ok" /\ o2 = "ok"
                /\ calls' = [cs EXCEPT ![s] =
                     [c0 EXCEPT !.pc = "returned",
                                !.result = CHOOSE ch \in hit : TRUE]]
                /\ UNCHANGED <<mappings, file, lastWriteOk, faultsLeft>>
           ELSE IF found # NoChannel
           THEN \* lines 76-78
                /\ cached \/ o1 = "ok"
                /\ n1 + Faults(o2) <= faultsLeft
                /\ mappings' = m2
                /\ file' = f2
                /\ lastWriteOk' = (o2 = "ok")
                /\ faultsLeft' = faultsLeft - (n1 + Faults(o2))
                /\ calls' = [cs EXCEPT ![s] =
                     [c0 EXCEPT !.pc = "returned", !.result = found,
                                !.evicted = cached,
                                !.saves = (IF cached THEN 2 ELSE 1)]]
           ELSE \* line 81, then line 96: await create_text_channel
                /\ o2 = "ok"
                /\ cached \/ o1 = "ok"
                /\ n1 <= faultsLeft
                /\ mappings' = m1
                /\ file' = f1
                /\ lastWriteOk' = (IF cached THEN o1 = "ok" ELSE lastWriteOk)
                /\ faultsLeft' = faultsLeft - n1
                /\ calls' = [cs EXCEPT ![s] =
                     [c0 EXCEPT !.pc = "create", !.evicted = cached,
                                !.saves = (IF cached THEN 1 ELSE 0)]]
    /\ started' = started + 1
    /\ UNCHANGED <<guild, nextId, deletesLeft, nonResolverVars>>

(***************************************************************************)
(* _create_channel resumes after create_text_channel (lines 96-106): the   *)
(* channel exists, the mapping is recorded and saved, and the welcome      *)
(* message is awaited.                                                     *)
(***************************************************************************)
CreateTextChannelOk(s, o) ==
    /\ calls[s].pc = "create"
    /\ Faults(o) <= faultsLeft
    /\ LET c == calls[s]
           channel == [id |-> nextId,
                       name |-> SanitizeChannelName(c.rig),
                       kind |-> "text"]
           m == DictSet(mappings, c.rig, channel.id)
       IN  /\ guild' = guild \cup {channel}
           /\ nextId' = nextId + 1
           /\ mappings' = m
           /\ file' = SaveMappings(m, file, o)
           /\ lastWriteOk' = (o = "ok")
           /\ faultsLeft' = faultsLeft - Faults(o)
           /\ calls' = [calls EXCEPT ![s] =
                [c EXCEPT !.pc = "send", !.chan = channel,
                          !.created = @ + 1, !.saves = @ + 1]]
    /\ UNCHANGED <<started, deletesLeft, nonResolverVars>>

\* create_text_channel raises (transport error): the exception propagates
CreateTextChannelFail(s) ==
    /\ calls[s].pc = "create"
    /\ calls' = [calls EXCEPT ![s] = [@ EXCEPT !.pc = "raised"]]
    /\ UNCHANGED <<mappings, file, guild, nextId, started, lastWriteOk,
                   faultsLeft, deletesLeft, nonResolverVars>>

\* channel.send returns (line 106), the channel is returned (line 108)
WelcomeSendOk(s) ==
    /\ calls[s].pc = "send"
    /\ calls[s].chan \in guild
    /\ calls' = [calls EXCEPT ![s] =
         [@ EXCEPT !.pc = "returned", !.result = calls[s].chan]]
    /\ UNCHANGED <<mappings, file, guild, nextId, started, lastWriteOk,
                   faultsLeft, deletesLeft, nonResolverVars>>

\* channel.send raises: transport error, or the channel is gone
WelcomeSendFail(s) ==
    /\ calls[s].pc = "send"
    /\ calls' = [calls EXCEPT ![s] = [@ EXCEPT !.pc = "raised"]]
    /\ UNCHANGED <<mappings, file, guild, nextId, started, lastWriteOk,
                   faultsLeft, deletesLeft, nonResolverVars>>

(***************************************************************************)
(* delete_channel up to its await (lines 165-172), or to its end when the  *)
(* channel is not in the directory (lines 174-178).                        *)
(***************************************************************************)
DeleteChannel(s, rig_name, o) ==
    /\ CanStart(s)
    /\ LET c0 == NewCall(s, "delete", rig_name)
           cs == WithPeer(calls, s)
       IN  IF rig_name \notin DOMAIN mappings
           THEN \* line 166
                /\ o = "ok"
                /\ calls' = [cs EXCEPT ![s] =
                     [c0 EXCEPT !.pc = "returned", !.result = FALSE]]
                /\ UNCHANGED <<mappings, file, lastWriteOk, faultsLeft>>
           ELSE LET channel == GetChannel(guild, mappings[rig_name])
                    m == DictDel(mappings, rig_name)
                IN  IF channel # {}
                    THEN \* line 172: await channel.delete()
                         /\ o = "ok"
                         /\ calls' = [cs EXCEPT ![s] =
                              [c0 EXCEPT !.pc = "delete",
                                         !.chan = CHOOSE ch \in channel : TRUE]]
                         /\ UNCHANGED <<mappings, file, lastWriteOk, faultsLeft>>
                    ELSE \* lines 175-178
                         /\ Faults(o) <= faultsLeft
                         /\ mappings' = m
                         /\ file' = SaveMappings(m, file, o)
                         /\ lastWriteOk' = (o = "ok")
                         /\ faultsLeft' = faultsLeft - Faults(o)
                         /\ calls' = [cs EXCEPT ![s] =
                              [c0 EXCEPT !.pc = "returned", !.result = TRUE,
                                         !.saves = 1]]
    /\ started' = started + 1
    /\ UNCHANGED <<guild, nextId, deletesLeft, nonResolverVars>>

\* channel.delete() returns; lines 175-178.  del raises KeyError when another
\* call has removed the entry meanwhile.
ChannelDeleteOk(s, o) ==
    /\ calls[s].pc = "delete"
    /\ calls[s].chan \in guild
    /\ LET c == calls[s]
           m == DictDel(mappings, c.rig)
       IN  /\ guild' = guild \ {c.chan}
           /\ IF c.rig \in DOMAIN mappings
              THEN /\ Faults(o) <= faultsLeft
                   /\ mappings' = m
                   /\ file' = SaveMappings(m, file, o)
                   /\ lastWriteOk' = (o = "ok")
                   /\ faultsLeft' = faultsLeft - Faults(o)
                   /\ calls' = [calls EXCEPT ![s] =
                        [c EXCEPT !.pc = "returned", !.result = TRUE,
                                  !.deleted = @ + 1, !.saves = @ + 1]]
              ELSE /\ o = "ok"
                   /\ calls' = [calls EXCEPT ![s] =
                        [c EXCEPT !.pc = "raised", !.deleted = @ + 1]]
                   /\ UNCHANGED <<mappings, file, lastWriteOk, faultsLeft>>
    /\ UNCHANGED <<nextId, started, deletesLeft, nonResolverVars>>

\* channel.delete() raises: transport error, or the channel is gone
ChannelDeleteFail(s) ==
    /\ calls[s].pc = "delete"
    /\ calls' = [calls EXCEPT ![s] = [@ EXCEPT !.pc = "raised"]]
    /\ UNCHANGED <<mappings, file, guild, nextId, started, lastWriteOk,
                   faultsLeft, deletesLeft, nonResolverVars>>

\* the caller cancels the task while it is suspended at an await
Cancel(s) ==
    /\ calls[s].pc \in Suspended
    /\ calls' = [calls EXCEPT ![s] = [@ EXCEPT !.pc = "cancelled"]]
    /\ UNCHANGED <<mappings, file, guild, nextId, started, lastWriteOk,
                   faultsLeft, deletesLeft, nonResolverVars>>

\* someone else deletes a channel of the guild
ExternalDelete(ch) ==
    /\ ch \in guild
    /\ deletesLeft > 0
    /\ guild' = guild \ {ch}
    /\ deletesLeft' = deletesLeft - 1
    /\ UNCHANGED <<mappings, file, nextId, calls, started, lastWriteOk,
                   faultsLeft, nonResolverVars>>

NextResolver ==
    \/ \E s \in DOMAIN calls, r \in Rigs, o1 \in WriteOutcomes,
          o2 \in WriteOutcomes : GetOrCreateChannel(s, r, o1, o2)
    \/ \E s \in DOMAIN calls, o \in WriteOutcomes : CreateTextChannelOk(s, o)
    \/ \E s \in DOMAIN calls : CreateTextChannelFail(s)
    \/ \E s \in DOMAIN calls : WelcomeSendOk(s)
    \/ \E s \in DOMAIN calls : WelcomeSendFail(s)
    \/ \E s \in DOMAIN calls, r \in Rigs, o \in WriteOutcomes :
          DeleteChannel(s, r, o)
    \/ \E s \in DOMAIN calls, o \in WriteOutcomes : ChannelDeleteOk(s, o)
    \/ \E s \in DOMAIN calls : ChannelDeleteFail(s)
    \/ \E s \in DOMAIN calls : Cancel(s)
    \/ \E ch \in guild : ExternalDelete(ch)

vars == <<resolverVars, sanitizeVars, toolVars, formatVars>>

\* One call at a time: the dispatch model the resolver is written for.
Init ==
    /\ InitResolver(1, InitMappings, MaxIoFaults, MaxExtDeletes)
    /\ InitSanitizeIdle /\ InitToolIdle /\ InitFormatIdle
Next == NextResolver
Spec == Init /\ [][Next]_vars

\* Calls may overlap: a caller that starts a call while another is suspended.
\* Writes succeed and nobody else touches the guild, so that what goes wrong
\* is the overlap's doing.
InitConcurrent ==
    /\ InitResolver(MaxInFlight, {EmptyDict}, 0, 0)
    /\ InitSanitizeIdle /\ InitToolIdle /\ InitFormatIdle
NextConcurrent ==
    \/ \E s \in DOMAIN calls, r \in Rigs : GetOrCreateChannel(s, r, "ok", "ok")
    \/ \E s \in DOMAIN calls : CreateTextChannelOk(s, "ok")
    \/ \E s \in DOMAIN calls : CreateTextChannelFail(s)
    \/ \E s \in DOMAIN calls : WelcomeSendOk(s)
    \/ \E s \in DOMAIN calls : WelcomeSendFail(s)
    \/ \E s \in DOMAIN calls, r \in Rigs : DeleteChannel(s, r, "ok")
    \/ \E s \in DOMAIN calls : ChannelDeleteOk(s, "ok")
    \/ \E s \in DOMAIN calls : ChannelDeleteFail(s)
    \/ \E s \in DOMAIN calls : Cancel(s)
SpecConcurrent == InitConcurrent /\ [][NextConcurrent]_vars

(***************************************************************************)
(* _sanitize_channel_name as a pure function: applied to every string of   *)
(* at most MaxLen characters of Alphabet, and then to its own result.      *)
(***************************************************************************)
Alphabet == {"a", "A", "g", "t", "1", " ", "-", "_", "!", "é", "É", "²", "Ä"}

Strings(n) == UNION {[1..k -> Alphabet] : k \in 0..n}

InitSanitize ==
    /\ sIn \in Strings(MaxLen)
    /\ sOut = <<>> /\ sOut2 = <<>> /\ sPc = "input"

SanitizeOnce ==
    /\ sPc = "input"
    /\ sOut' = SanitizeChannelName(sIn)
    /\ sPc' = "once"
    /\ UNCHANGED <<sIn, sOut2, resolverVars, toolVars, formatVars>>

SanitizeTwice ==
    /\ sPc = "once"
    /\ sOut2' = SanitizeChannelName(sOut)
    /\ sPc' = "twice"
    /\ UNCHANGED <<sIn, sOut, resolverVars, toolVars, formatVars>>

NextSanitize == SanitizeOnce \/ SanitizeTwice

InitSanitizeSpec ==
    /\ InitResolverIdle /\ InitSanitize /\ InitToolIdle /\ InitFormatIdle

SpecSanitize == InitSanitizeSpec /\ [][NextSanitize]_vars

(***************************************************************************)
(* bot.py: the send_discord_message tool handler and                       *)
(* DiscordClient.send_message.  Channel names, messages and rig names are  *)
(* opaque here: strings nothing computes on.                               *)
(***************************************************************************)
\* the channels of the guilds the client is connected to
ClientChannels == {[name |-> "general", kind |-> "text"],
                   [name |-> "lounge", kind |-> "voice"]}

ToolNames == {"send_discord_message", "other_tool"}
ChannelNameArgs == {"general", "lounge", "nowhere", "None", ""}
MessageArgs == {"hi", ""}
RigNameArgs == {"gastown", ""}

\* the argument dicts a caller may send: every key present or not
ArgumentDicts ==
    {a \in UNION {[ks -> ChannelNameArgs \cup MessageArgs \cup RigNameArgs] :
                    ks \in SUBSET {"channel_name", "message", "rig_name"}} :
        /\ "channel_name" \in DOMAIN a => a["channel_name"] \in ChannelNameArgs
        /\ "message" \in DOMAIN a => a["message"] \in MessageArgs
        /\ "rig_name" \in DOMAIN a => a["rig_name"] \in RigNameArgs}

\* dict.get(k): the str under the key, or None, which is no str, when the
\* key is missing
DictGet(d, k) ==
    IF k \in DOMAIN d THEN [t |-> "str", v |-> d[k]] ELSE [t |-> "None", v |-> ""]

\* not x, for x a str or None
Falsy(x) == x.t = "None" \/ x.v = ""

TextContent(text) == [kind |-> "text", text |-> text]
Raised(error, text) == [kind |-> "raised", error |-> error, text |-> text]

InitTool ==
    /\ ready \in BOOLEAN
    /\ tReq = NoRequest /\ tPc = "idle" /\ tChan = "" /\ tResp = NoResponse
    /\ posted = {}

\* on_ready (lines 47-50)
OnReady ==
    /\ ~ready
    /\ ready' = TRUE
    /\ UNCHANGED <<tReq, tPc, tChan, tResp, posted, resolverVars, sanitizeVars,
                   formatVars>>

\* call_tool up to its await (lines 143-154); send_message then awaits
\* wait_until_ready (line 76)
CallTool(name, arguments) ==
    /\ tPc = "idle"
    /\ tReq' = [name |-> name, arguments |-> arguments]
    /\ LET channel_name == DictGet(arguments, "channel_name")
           message == DictGet(arguments, "message")
       IN  IF name # "send_discord_message"
           THEN /\ tPc' = "done"
                /\ tResp' = Raised("ValueError", <<"Unknown tool: ", name>>)
           ELSE IF Falsy(channel_name) \/ Falsy(message)
           THEN /\ tPc' = "done"
                /\ tResp' = Raised("ValueError",
                                   <<"channel_name and message are required">>)
           ELSE /\ tPc' = "wait_until_ready"
                /\ tResp' = tResp
    /\ UNCHANGED <<ready, tChan, posted, resolverVars, sanitizeVars, formatVars>>

\* send_message from wait_until_ready to its await of channel.send (lines
\* 78-97); the ValueError of line 89 is caught at line 156
SendMessage ==
    /\ tPc = "wait_until_ready"
    /\ ready
    /\ LET channel_name == DictGet(tReq.arguments, "channel_name").v
           found == {ch \in ClientChannels :
                        ch.kind = "text" /\ ch.name = channel_name}
       IN  IF found = {}
           THEN /\ tPc' = "done"
                /\ tResp' = TextContent(<<"Failed to send message: ",
                                          "Channel '", channel_name,
                                          "' not found">>)
                /\ tChan' = tChan
           ELSE /\ tPc' = "send"
                /\ tChan' = channel_name
                /\ tResp' = tResp
    /\ UNCHANGED <<ready, tReq, posted, resolverVars, sanitizeVars, formatVars>>

\* channel.send returns (lines 97-100, 155)
ChannelSendOk ==
    /\ tPc = "send"
    /\ LET message == DictGet(tReq.arguments, "message").v
           rig_name == DictGet(tReq.arguments, "rig_name")
           full_message == IF Falsy(rig_name) THEN <<message>>
                           ELSE <<"[", rig_name.v, "] ", message>>
       IN  posted' = posted \cup {<<tChan, full_message>>}
    /\ tPc' = "done"
    /\ tResp' = TextContent(<<"Message sent to #", tChan>>)
    /\ UNCHANGED <<ready, tReq, tChan, resolverVars, sanitizeVars, formatVars>>

\* channel.send raises (lines 156-159)
ChannelSendFail ==
    /\ tPc = "send"
    /\ tPc' = "done"
    /\ tResp' = TextContent(<<"Failed to send message: ", "transport error">>)
    /\ UNCHANGED <<ready, tReq, tChan, posted, resolverVars, sanitizeVars,
                   formatVars>>

NextTool ==
    \/ OnReady
    \/ \E name \in ToolNames, arguments \in ArgumentDicts :
          CallTool(name, arguments)
    \/ SendMessage
    \/ ChannelSendOk
    \/ ChannelSendFail

InitToolSpec ==
    /\ InitResolverIdle /\ InitSanitizeIdle /\ InitTool /\ InitFormatIdle

SpecTool == InitToolSpec /\ [][NextTool]_vars

(***************************************************************************)
(* formatter.py.  Python values are tagged: a str carries its characters,  *)
(* an int its value, a datetime the second of 2024-01-01T00:00 it denotes. *)
(* A character outside Latin-1, and the backtick, is written "U+XXXX".      *)
(***************************************************************************)
PyNone == [t |-> "None", s |-> <<>>, i |-> 0]
PyStr(s) == [t |-> "str", s |-> s, i |-> 0]
PyInt(i) == [t |-> "int", s |-> <<>>, i |-> i]
PyDatetime(i) == [t |-> "datetime", s |-> <<>>, i |-> i]
PyList(s) == [t |-> "list", s |-> s, i |-> 0]

\* A plausible slip: the test is for presence of the parameter, not its truth.
TruthyAlways(v) == TRUE

\* bool(v)
Truthy(v) ==
    CASE v.t = "None" -> FALSE
      [] v.t = "str" -> v.s # <<>>
      [] v.t = "list" -> v.s # <<>>
      [] v.t = "int" -> v.i # 0
      [] OTHER -> TRUE

DigitChars == <<"0", "1", "2", "3", "4", "5", "6", "7", "8", "9">>

RECURSIVE NatToStr(_)
\* str(n) for an int n >= 0
NatToStr(n) ==
    IF n < 10 THEN <<DigitChars[n + 1]>>
    ELSE NatToStr(n \div 10) \o <<DigitChars[(n % 10) + 1]>>

\* str(n) for an int
IntToStr(n) == IF n < 0 THEN <<"-">> \o NatToStr(-n) ELSE NatToStr(n)

\* two digits, zero padded
Pad2(n) == IF n < 10 THEN <<"0">> \o NatToStr(n) ELSE NatToStr(n)

\* datetime.isoformat() of the datetime 2024-01-01 00:00:ss
IsoFormat(dt) ==
    PyStr(<<"2", "0", "2", "4", "-", "0", "1", "-", "0", "1", "T", "0", "0", ":",
            "0", "0", ":">> \o Pad2(dt.i))

\* str(v), as an f-string formats {v}
Format(v) ==
    CASE v.t = "str" -> v.s
      [] v.t = "int" -> IntToStr(v.i)
      [] v.t = "datetime" ->
           <<"2", "0", "2", "4", "-", "0", "1", "-", "0", "1", " ", "0", "0", ":",
             "0", "0", ":">> \o Pad2(v.i)
      [] OTHER -> <<"N", "o", "n", "e">>

\* str.upper() on one character: a string, as the sharp s becomes "SS"; the
\* micro sign becomes the capital mu
UpperChar(c) ==
    CASE c = "ß" -> <<"S", "S">>
      [] c = "µ" -> <<"U+039C">>
      [] c \in DOMAIN ToUpper -> <<ToUpper[c]>>
      [] OTHER -> <<c>>

RECURSIVE Upper(_)
\* str.upper()
Upper(str) ==
    IF str = <<>> THEN <<>> ELSE UpperChar(Head(str)) \o Upper(Tail(str))

\* c * n: the empty string when n <= 0
Repeat(c, n) == [i \in 1..(IF n > 0 THEN n ELSE 0) |-> c]

\* EventType members (lines 15-21)
EventType == {"NUDGE", "BROADCAST", "MAIL", "CONVOY_UPDATE", "ESCALATION",
              "HANDOFF", "COMPLETION"}

\* NotificationFormatter.COLORS (lines 39-47)
COLORS == [NUDGE |-> 5793266, BROADCAST |-> 16705372, MAIL |-> 5763719,
           CONVOY_UPDATE |-> 15418782, ESCALATION |-> 15548997,
           HANDOFF |-> 3908957, COMPLETION |-> 5763719]

\* the fallback colour of format_generic (line 394)
DefaultColor == 5793266

\* descriptions are cut at this length (lines 168, 275, 318)
DescriptionLimit == 4096

\* "<U+0060>"
Backtick == <<"U+0060">>
\* "<U+1F4AC> Agent Nudge"
TitleNudge ==
    <<"U+1F4AC", " ", "A", "g", "e", "n", "t", " ", "N", "u", "d", "g", "e">>
\* "<U+1F4E2> Broadcast"
TitleBroadcast ==
    <<"U+1F4E2", " ", "B", "r", "o", "a", "d", "c", "a", "s", "t">>
\* "<U+1F4E7> "
TitleMailPrefix == <<"U+1F4E7", " ">>
\* "<U+1F69A> Convoy: "
TitleConvoyPrefix ==
    <<"U+1F69A", " ", "C", "o", "n", "v", "o", "y", ":", " ">>
\* "<U+1F6A8> Escalation: "
TitleEscalationPrefix ==
    <<"U+1F6A8", " ", "E", "s", "c", "a", "l", "a", "t", "i", "o", "n", ":",
      " ">>
\* "<U+1F91D> Handoff: "
TitleHandoffPrefix ==
    <<"U+1F91D", " ", "H", "a", "n", "d", "o", "f", "f", ":", " ">>
\* "<U+2705> Completed: "
TitleCompletionPrefix ==
    <<"U+2705", " ", "C", "o", "m", "p", "l", "e", "t", "e", "d", ":", " ">>
\* "Rig: "
RigPrefix == <<"R", "i", "g", ":", " ">>
\* "Gas Town"
GasTown == <<"G", "a", "s", " ", "T", "o", "w", "n">>
\* "Town-wide"
TownWide == <<"T", "o", "w", "n", "-", "w", "i", "d", "e">>
\* "workers"
Workers == <<"w", "o", "r", "k", "e", "r", "s">>
\* "all"
All == <<"a", "l", "l">>
\* "All Workers"
AllWorkers == <<"A", "l", "l", " ", "W", "o", "r", "k", "e", "r", "s">>
\* "All Agents (including infrastructure)"
AllAgents ==
    <<"A", "l", "l", " ", "A", "g", "e", "n", "t", "s", " ", "(", "i", "n",
      "c", "l", "u", "d", "i", "n", "g", " ", "i", "n", "f", "r", "a", "s",
      "t", "r", "u", "c", "t", "u", "r", "e", ")">>
\* "low"
SeverityLow == <<"l", "o", "w">>
\* "medium"
SeverityMedium == <<"m", "e", "d", "i", "u", "m">>
\* "high"
SeverityHigh == <<"h", "i", "g", "h">>
\* "critical"
SeverityCritical == <<"c", "r", "i", "t", "i", "c", "a", "l">>
\* "<U+2139><U+FE0F>"
EmojiLow == <<"U+2139", "U+FE0F">>
\* "<U+26A0><U+FE0F>"
EmojiMedium == <<"U+26A0", "U+FE0F">>
\* "<U+1F534>"
EmojiHigh == <<"U+1F534">>
\* "<U+1F6A8>"
EmojiCritical == <<"U+1F6A8">>
\* "<U+2588>": one character
BarFilled == <<"U+2588">>
\* "<U+2591>": one character
BarEmpty == <<"U+2591">>
\* "Gas Town Event"
DefaultTitle ==
    <<"G", "a", "s", " ", "T", "o", "w", "n", " ", "E", "v", "e", "n", "t">>

\* the f-string that puts {v} between two backticks (U+0060)
Quoted(v) == PyStr(Backtick \o Format(v) \o Backtick)

\* {"name": .., "value": .., "inline": ..}
Field(name, value, inline) == [name |-> name, value |-> value, inline |-> inline]

\* timestamp = timestamp or datetime.utcnow()
OrNow(timestamp, now) == IF Truthy(timestamp) THEN timestamp ELSE now

\* {"text": f"Rig: {rig}" if rig else default}
Footer(rig, default) ==
    [text |-> IF Truthy(rig) THEN PyStr(RigPrefix \o Format(rig)) ELSE PyStr(default)]

\* A plausible slip: the description is passed on whole.
NotTruncated(x) == x

\* x[:4096] if len(x) > 4096 else x
Truncated(x) ==
    IF Len(x.s) > DescriptionLimit
    THEN PyStr(SubSeq(x.s, 1, DescriptionLimit))
    ELSE x

\* int(x) of the quotient a / b, b > 0: truncation toward zero
TruncDiv(a, b) == IF a >= 0 THEN a \div b ELSE -((-a) \div b)

RECURSIVE Log2(_)
\* the exponent of a float k >= 1: the floor of its binary logarithm
Log2(k) == IF k < 2 THEN 0 ELSE 1 + Log2(k \div 2)

RECURSIVE Pow2Mod100(_)
\* 2^s modulo 100
Pow2Mod100(s) == IF s = 0 THEN 1 ELSE (2 * Pow2Mod100(s - 1)) % 100

\* Whether the double product (k / 100) * 100 falls below the integer k >= 1,
\* so that int() yields k - 1: 0.29 * 100 is 28.999999999999996.  With
\* 2^e <= k < 2^(e+1), the quotient k / 100 is rounded to 53 bits; when it
\* lies in the upper binade (16k >= 25 * 2^e) its mantissa is the integer
\* nearest to k * 2^(58-e) / 100, and the product rounds below k exactly when
\* the remainder of that division is between 33 and 49: the quotient was
\* rounded down by more than half a unit in the last place of k.
FloatRoundsBelow(k) ==
    LET e == Log2(k)
        upper == IF e >= 4 THEN k >= 25 * 2^(e - 4) ELSE 16 * k >= 25 * 2^e
        rem == ((k % 100) * Pow2Mod100(58 - e)) % 100
    IN  k >= 1 /\ upper /\ rem >= 33 /\ rem <= 49

\* int((completed / total) * 100) if total > 0 else 0 (line 212).  The float
\* result is off by far less than the distance of 100 * completed / total
\* from an integer unless that is an integer k, and then it depends on k
\* alone; float arithmetic and int() are symmetric in the sign.
Percentage(completed, total) ==
    LET a == IF completed >= 0 THEN completed ELSE -completed
        k == (100 * a) \div total
        p == IF (100 * a) % total = 0 /\ FloatRoundsBelow(k) THEN k - 1 ELSE k
    IN  IF total > 0
        THEN (IF completed >= 0 THEN p ELSE -p)
        ELSE 0

\* NotificationFormatter._create_progress_bar (lines 418-420), length = 10;
\* int((percentage / 100) * 10) is the truncated percentage / 10: the float
\* product never rounds across an integer
create_progress_bar(percentage) ==
    LET length == 10
        filled == TruncDiv(percentage * length, 100)
    IN  <<"[">> \o Repeat(BarFilled[1], filled)
               \o Repeat(BarEmpty[1], length - filled) \o <<"]">>

\* NotificationFormatter.format_nudge
format_nudge(from_agent, to_agent, message, rig, timestamp, now) ==
    [title |-> PyStr(TitleNudge),
     description |-> message,
     color |-> COLORS.NUDGE,
     fields |-> <<Field("From", Quoted(from_agent), TRUE),
                  Field("To", Quoted(to_agent), TRUE)>>,
     timestamp |-> IsoFormat(OrNow(timestamp, now)),
     footer |-> Footer(rig, GasTown)]

\* NotificationFormatter.format_broadcast
format_broadcast(from_agent, message, rig, target_scope, timestamp, now) ==
    LET scope_display ==
            CASE target_scope = PyStr(Workers) -> PyStr(AllWorkers)
              [] target_scope = PyStr(All) -> PyStr(AllAgents)
              [] OTHER -> target_scope
    IN  [title |-> PyStr(TitleBroadcast),
         description |-> message,
         color |-> COLORS.BROADCAST,
         fields |-> <<Field("From", Quoted(from_agent), TRUE),
                      Field("Scope", scope_display, TRUE)>>,
         timestamp |-> IsoFormat(OrNow(timestamp, now)),
         footer |-> Footer(rig, TownWide)]

\* NotificationFormatter.format_mail
format_mail(from_agent, to_agent, subject, message, mail_id, priority, timestamp, now) ==
    LET fields0 == <<Field("From", Quoted(from_agent), TRUE),
                     Field("To", Quoted(to_agent), TRUE)>>
        fields1 == IF Truthy(priority)
                   THEN Append(fields0, Field("Priority", priority, TRUE))
                   ELSE fields0
        fields2 == IF Truthy(mail_id)
                   THEN Append(fields1, Field("Mail ID", Quoted(mail_id), FALSE))
                   ELSE fields1
    IN  [title |-> PyStr(TitleMailPrefix \o Format(subject)),
         description |-> Truncated(message),
         color |-> COLORS.MAIL,
         fields |-> fields2,
         timestamp |-> IsoFormat(OrNow(timestamp, now))]

\* NotificationFormatter.format_convoy_update
format_convoy_update(convoy_id, convoy_name, status, message, completed, total, rig, timestamp, now) ==
    LET fields0 == <<Field("Convoy ID", Quoted(convoy_id), TRUE),
                     Field("Status", status, TRUE)>>
        percentage == Percentage(completed.i, total.i)
        progress == Format(completed) \o <<"/">> \o Format(total)
        fields1 ==
            IF completed # PyNone /\ total # PyNone
            THEN Append(fields0,
                   Field("Progress",
                         PyStr(create_progress_bar(percentage) \o <<" ">>
                             \o progress \o <<" ", "(">>
                             \o IntToStr(percentage) \o <<"%", ")">>),
                         FALSE))
            ELSE fields0
    IN  [title |-> PyStr(TitleConvoyPrefix \o Format(convoy_name)),
         description |-> message,
         color |-> COLORS.CONVOY_UPDATE,
         fields |-> fields1,
         timestamp |-> IsoFormat(OrNow(timestamp, now)),
         footer |-> Footer(rig, GasTown)]

\* NotificationFormatter.format_escalation
format_escalation(from_agent, issue, severity, details, bead_id, rig, timestamp, now) ==
    LET lowered == Lower(severity.s)
        severity_emoji ==
            CASE lowered = SeverityLow -> EmojiLow
              [] lowered = SeverityMedium -> EmojiMedium
              [] lowered = SeverityHigh -> EmojiHigh
              [] lowered = SeverityCritical -> EmojiCritical
              [] OTHER -> EmojiMedium
        fields0 == <<Field("From", Quoted(from_agent), TRUE),
                     Field("Severity",
                           PyStr(severity_emoji \o <<" ">> \o Upper(severity.s)),
                           TRUE)>>
        fields1 == IF Truthy(bead_id)
                   THEN Append(fields0,
                               Field("Related Bead", Quoted(bead_id), FALSE))
                   ELSE fields0
    IN  [title |-> PyStr(TitleEscalationPrefix \o Format(issue)),
         description |-> Truncated(details),
         color |-> COLORS.ESCALATION,
         fields |-> fields1,
         timestamp |-> IsoFormat(OrNow(timestamp, now)),
         footer |-> Footer(rig, GasTown)]

\* NotificationFormatter.format_handoff
format_handoff(from_agent, subject, message, hooked_work, rig, timestamp, now) ==
    LET fields0 == <<Field("From", Quoted(from_agent), TRUE)>>
        fields1 == IF Truthy(hooked_work)
                   THEN Append(fields0,
                               Field("Hooked Work", Quoted(hooked_work), TRUE))
                   ELSE fields0
    IN  [title |-> PyStr(TitleHandoffPrefix \o Format(subject)),
         description |-> Truncated(message),
         color |-> COLORS.HANDOFF,
         fields |-> fields1,
         timestamp |-> IsoFormat(OrNow(timestamp, now)),
         footer |-> Footer(rig, GasTown)]

\* NotificationFormatter.format_completion
format_completion(agent, bead_id, bead_title, summary, rig, timestamp, now) ==
    [title |-> PyStr(TitleCompletionPrefix \o Format(bead_title)),
     description |-> summary,
     color |-> COLORS.COMPLETION,
     fields |-> <<Field("Agent", Quoted(agent), TRUE),
                  Field("Bead ID", Quoted(bead_id), TRUE)>>,
     timestamp |-> IsoFormat(OrNow(timestamp, now)),
     footer |-> Footer(rig, GasTown)]

\* NotificationFormatter.format_generic; the keys "fields" and "footer" exist
\* only when set
format_generic(title, message, event_type, fields, rig, timestamp, now) ==
    LET embed0 == [title |-> title,
                   description |-> message,
                   color |-> IF event_type \in EventType
                             THEN COLORS[event_type] ELSE DefaultColor,
                   timestamp |-> IsoFormat(OrNow(timestamp, now))]
        embed1 == IF Truthy(fields)
                  THEN [k \in DOMAIN embed0 \cup {"fields"} |->
                          IF k = "fields" THEN fields.s ELSE embed0[k]]
                  ELSE embed0
    IN  IF Truthy(rig)
        THEN [k \in DOMAIN embed1 \cup {"footer"} |->
                IF k = "footer" THEN [text |-> PyStr(RigPrefix \o Format(rig))]
                ELSE embed1[k]]
        ELSE embed1

(***************************************************************************)
(* format_event: dispatch by name, and Python's binding of **kwargs to the *)
(* parameters of the formatter.                                            *)
(***************************************************************************)
Returned(embed) == [kind |-> "embed", embed |-> embed]
RaisedError(error) == [kind |-> "raised", error |-> error]

\* A plausible slip: .get(k) without the default
KwGetNoDefault(kwargs, k, default) ==
    IF k \in DOMAIN kwargs THEN kwargs[k] ELSE PyNone

\* kwargs.get(k, default); also the value of a parameter with a default
KwGet(kwargs, k, default) == IF k \in DOMAIN kwargs THEN kwargs[k] ELSE default

\* the parameters of each formatter: those without a default, and all
Required ==
    [nudge |-> {"from_agent", "to_agent", "message"},
     broadcast |-> {"from_agent", "message"},
     mail |-> {"from_agent", "to_agent", "subject", "message"},
     convoy_update |-> {"convoy_id", "convoy_name", "status", "message"},
     escalation |-> {"from_agent", "issue", "severity", "details"},
     handoff |-> {"from_agent", "subject", "message"},
     completion |-> {"agent", "bead_id", "bead_title", "summary"}]

Optional ==
    [nudge |-> {"rig", "timestamp"},
     broadcast |-> {"rig", "target_scope", "timestamp"},
     mail |-> {"mail_id", "priority", "timestamp"},
     convoy_update |-> {"completed", "total", "rig", "timestamp"},
     escalation |-> {"bead_id", "rig", "timestamp"},
     handoff |-> {"hooked_work", "rig", "timestamp"},
     completion |-> {"rig", "timestamp"}]

\* format_func(**kwargs) binds: no unexpected keyword, no required one missing
Binds(f, kwargs) ==
    /\ DOMAIN kwargs \subseteq Required[f] \cup Optional[f]
    /\ Required[f] \subseteq DOMAIN kwargs

\* format_func(**kwargs), once bound
Apply(f, kw, now) ==
    CASE f = "nudge" ->
           format_nudge(kw["from_agent"], kw["to_agent"], kw["message"],
                        KwGet(kw, "rig", PyNone),
                        KwGet(kw, "timestamp", PyNone), now)
      [] f = "broadcast" ->
           format_broadcast(kw["from_agent"], kw["message"],
                            KwGet(kw, "rig", PyNone),
                            KwGet(kw, "target_scope", PyStr(Workers)),
                            KwGet(kw, "timestamp", PyNone), now)
      [] f = "mail" ->
           format_mail(kw["from_agent"], kw["to_agent"], kw["subject"],
                       kw["message"], KwGet(kw, "mail_id", PyNone),
                       KwGet(kw, "priority", PyNone),
                       KwGet(kw, "timestamp", PyNone), now)
      [] f = "convoy_update" ->
           format_convoy_update(kw["convoy_id"], kw["convoy_name"],
                                kw["status"], kw["message"],
                                KwGet(kw, "completed", PyNone),
                                KwGet(kw, "total", PyNone),
                                KwGet(kw, "rig", PyNone),
                                KwGet(kw, "timestamp", PyNone), now)
      [] f = "escalation" ->
           format_escalation(kw["from_agent"], kw["issue"], kw["severity"],
                             kw["details"], KwGet(kw, "bead_id", PyNone),
                             KwGet(kw, "rig", PyNone),
                             KwGet(kw, "timestamp", PyNone), now)
      [] f = "handoff" ->
           format_handoff(kw["from_agent"], kw["subject"], kw["message"],
                          KwGet(kw, "hooked_work", PyNone),
                          KwGet(kw, "rig", PyNone),
                          KwGet(kw, "timestamp", PyNone), now)
      [] OTHER ->
           format_completion(kw["agent"], kw["bead_id"], kw["bead_title"],
                             kw["summary"], KwGet(kw, "rig", PyNone),
                             KwGet(kw, "timestamp", PyNone), now)

\* "nudge"
KindNudge == <<"n", "u", "d", "g", "e">>
\* "broadcast"
KindBroadcast == <<"b", "r", "o", "a", "d", "c", "a", "s", "t">>
\* "mail"
KindMail == <<"m", "a", "i", "l">>
\* "convoy_update"
KindConvoyUpdate ==
    <<"c", "o", "n", "v", "o", "y", "_", "u", "p", "d", "a", "t", "e">>
\* "convoy"
KindConvoy == <<"c", "o", "n", "v", "o", "y">>
\* "escalation"
KindEscalation == <<"e", "s", "c", "a", "l", "a", "t", "i", "o", "n">>
\* "handoff"
KindHandoff == <<"h", "a", "n", "d", "o", "f", "f">>
\* "completion"
KindCompletion == <<"c", "o", "m", "p", "l", "e", "t", "i", "o", "n">>
\* "Mail"
KindMailCapital == <<"M", "a", "i", "l">>
\* "frobnicate"
KindFrobnicate == <<"f", "r", "o", "b", "n", "i", "c", "a", "t", "e">>
\* "generic"
KindGeneric == <<"g", "e", "n", "e", "r", "i", "c">>

\* the formatters dict of format_event (lines 446-455): name -> formatter, or
\* "" for a name that is not a key
formatters(key) ==
    CASE key = KindNudge -> "nudge"
      [] key = KindBroadcast -> "broadcast"
      [] key = KindMail -> "mail"
      [] key = KindConvoyUpdate -> "convoy_update"
      [] key = KindConvoy -> "convoy_update"
      [] key = KindEscalation -> "escalation"
      [] key = KindHandoff -> "handoff"
      [] key = KindCompletion -> "completion"
      [] OTHER -> ""

\* format_event(event_type, **kwargs), with now what utcnow() returns
format_event(event_type, kwargs, now) ==
    LET format_func == formatters(Lower(event_type))
    IN  IF format_func = ""
        THEN Returned(format_generic(KwGet(kwargs, "title", PyStr(DefaultTitle)),
                                     KwGet(kwargs, "message", PyStr(<<>>)),
                                     "NUDGE", PyNone,
                                     KwGet(kwargs, "rig", PyNone),
                                     PyNone, now))
        ELSE IF Binds(format_func, kwargs)
        THEN Returned(Apply(format_func, kwargs, now))
        ELSE RaisedError("TypeError")

(***************************************************************************)
(* The calls of format_event that are tried: every kind name below, with   *)
(* the required arguments (or all but one of them) and any of the optional *)
(* ones, each argument of the type its parameter is annotated with.        *)
(***************************************************************************)
EventTypeArgs == {KindNudge, KindBroadcast, KindMail, KindConvoyUpdate,
                  KindConvoy, KindEscalation, KindHandoff, KindCompletion,
                  KindMailCapital, KindFrobnicate, KindGeneric, <<>>}

\* a description one character over the limit
LongText == [i \in 1..(DescriptionLimit + 1) |-> "x"]

\* the values tried for an argument: an optional text is also tried empty, a
\* description also over the limit, a progress also where the float product
\* rounds below (29 of 100)
Values(k) ==
    CASE k = "rig" -> {PyStr(<<"r">>), PyStr(<<>>)}
      [] k = "timestamp" -> {PyDatetime(7)}
      [] k = "completed" -> {PyInt(2), PyInt(29)}
      [] k = "total" -> {PyInt(5), PyInt(0), PyInt(100)}
      [] k = "severity" -> {PyStr(<<"H", "i", "g", "h">>),
                            PyStr(<<"g", "r", "o", "ß">>)}
      [] k = "target_scope" -> {PyStr(All)}
      [] k \in {"priority", "mail_id", "bead_id", "hooked_work"} ->
           {PyStr(<<"x">>), PyStr(<<>>)}
      [] k = "message" -> {PyStr(<<"x">>), PyStr(LongText)}
      [] k = "details" -> {PyStr(<<"x">>), PyStr(SubSeq(LongText, 1, DescriptionLimit)),
                           PyStr(LongText)}
      [] OTHER -> {PyStr(<<"x">>)}

\* the optional arguments tried with a formatter: its own and "rig"
TriedOptional(f) == Optional[f] \cup {"rig"}

\* the arguments tried with a name that is no key of formatters
FallbackArgs == {"title", "message", "rig", "from_agent", "timestamp"}

RECURSIVE Assignments(_)
\* the dicts with exactly these keys, each with one of its values
Assignments(keys) ==
    IF keys = {} THEN {EmptyDict}
    ELSE LET k == CHOOSE x \in keys : TRUE
         IN  {DictSet(a, k, v) : a \in Assignments(keys \ {k}), v \in Values(k)}

KeySets(event_type) ==
    LET f == formatters(Lower(event_type))
    IN  IF f = "" THEN SUBSET FallbackArgs
        ELSE {(Required[f] \ m) \cup o :
                m \in {{}} \cup {{r} : r \in Required[f]},
                o \in SUBSET TriedOptional(f)}

KwargsFor(event_type) == UNION {Assignments(ks) : ks \in KeySets(event_type)}

InitFormat ==
    /\ fKind = <<>> /\ fArgs = EmptyDict /\ fNow = 0
    /\ fOut = [kind |-> "none"] /\ fPc = "idle"

FormatEvent(event_type, kwargs, now) ==
    /\ fPc = "idle"
    /\ fKind' = event_type
    /\ fArgs' = kwargs
    /\ fNow' = now
    /\ fOut' = format_event(event_type, kwargs, PyDatetime(now))
    /\ fPc' = "done"
    /\ UNCHANGED <<resolverVars, sanitizeVars, toolVars>>

NextFormat ==
    \E event_type \in EventTypeArgs, now \in {5} :
        \E kwargs \in KwargsFor(event_type) :
            FormatEvent(event_type, kwargs, now)

InitFormatSpec ==
    /\ InitResolverIdle /\ InitSanitizeIdle /\ InitToolIdle /\ InitFormat

SpecFormat == InitFormatSpec /\ [][NextFormat]_vars


(***************************************************************************)
(* Properties of the resolver.                                             *)
(***************************************************************************)
\* the call started with a mapping entry whose channel is not in the guild
Stale(c) ==
    /\ c.rig \in DOMAIN c.startMappings
    /\ \A ch \in c.startGuild : ch.id # c.startMappings[c.rig]

\* the call started with no text channel of the rig's channel name
NoNameMatch(c) ==
    \A ch \in c.startGuild :
        ch.kind = "text" => ch.name # SanitizeChannelName(c.rig)

\* slot s returns from a call in this step
Returns(s) ==
    /\ calls'[s].pc = "returned"
    /\ calls[s].pc # "returned" \/ calls[s].n # calls'[s].n

\* C1: from an empty mapping and a guild with no text channel of the rig's
\* channel name, a resolve that returns has created exactly one channel, named
\* "gt-" + the sanitized rig ("gt-my-rig" for "my-rig"), has added the one
\* mapping entry rig -> new channel id, and has written the file exactly once.
C1_CreateOnMiss ==
    \A s \in DOMAIN calls :
      LET c == calls[s] IN
        (/\ c.op = "resolve" /\ c.pc = "returned"
         /\ c.startMappings = EmptyDict /\ NoNameMatch(c))
        => /\ c.created = 1
           /\ c.saves = 1
           /\ c.result.kind = "text"
           /\ c.result.id \notin {ch.id : ch \in c.startGuild}
           /\ Len(c.result.name) >= 3
           /\ SubSeq(c.result.name, 1, 3) = <<"g", "t", "-">>
           /\ c.rig = MyRig => c.result.name = GtMyRig
           /\ DOMAIN mappings = {c.rig}
           /\ mappings[c.rig] = c.result.id
           /\ lastWriteOk => (file.state = "ok" /\ file.content = mappings)

C1_Witness ==
    \E s \in DOMAIN calls :
        /\ calls[s].op = "resolve" /\ calls[s].pc = "returned"
        /\ calls[s].rig = MyRig
        /\ calls[s].startMappings = EmptyDict /\ NoNameMatch(calls[s])
        /\ calls[s].created = 1
        /\ calls[s].result.name = GtMyRig

C2_State ==
    \A s \in DOMAIN calls :
      LET c == calls[s] IN
        (c.op = "resolve" /\ Stale(c))
        => /\ c.evicted /\ c.saves >= 1
           /\ c.pc = "create" =>
                /\ c.rig \notin DOMAIN mappings
                /\ c.saves = 1
                /\ lastWriteOk => (file.state = "ok" /\ file.content = mappings)
           /\ c.pc = "returned" =>
                /\ c.result.id # c.startMappings[c.rig]
                /\ \/ c.created = 0 /\ c.saves = 2 /\ ~NoNameMatch(c)
                      /\ c.result \in c.startGuild
                   \/ c.created = 1 /\ c.saves = 2 /\ NoNameMatch(c)

C2_Step ==
    \A s \in DOMAIN calls :
        (Returns(s) /\ calls'[s].op = "resolve" /\ Stale(calls'[s]))
        => /\ calls'[s].result \in guild'
           /\ calls'[s].rig \in DOMAIN mappings'
           /\ mappings'[calls'[s].rig] = calls'[s].result.id

\* C2: a resolve that starts with a mapping entry whose channel is not in the
\* guild removes the entry and saves before anything else (while it awaits the
\* creation the entry is gone), then takes the channel found by name or, with
\* no match, a created one; the channel it returns is in the guild when it
\* returns, is not the missing one, and is the one the mapping then names.
C2_StaleEviction == []C2_State /\ [][C2_Step]_vars

C2_Witness ==
    \E s \in DOMAIN calls :
        /\ calls[s].op = "resolve" /\ calls[s].pc = "returned"
        /\ Stale(calls[s])
        /\ calls[s].created = 1

\* the two calls were in flight at the same time
Overlap(c, d) == c.n \in d.peers \/ d.n \in c.peers

\* C3: two overlapping resolve calls for the same rig create at most one
\* channel between them, and if both return they return the same channel.
C3_NoDoubleCreate ==
    \A s \in DOMAIN calls, t \in DOMAIN calls :
      LET c == calls[s]
          d == calls[t]
      IN  (/\ s # t /\ c.op = "resolve" /\ d.op = "resolve"
           /\ c.rig = d.rig /\ Overlap(c, d))
          => /\ c.created + d.created <= 1
             /\ (c.pc = "returned" /\ d.pc = "returned") => c.result = d.result

C4_State ==
    \A s \in DOMAIN calls :
      LET c == calls[s] IN
        (c.op = "delete" /\ c.pc = "returned")
        => IF c.rig \notin DOMAIN c.startMappings
           THEN /\ c.result = FALSE
                /\ c.saves = 0 /\ c.deleted = 0
                /\ mappings = c.startMappings
                /\ file = c.startFile
           ELSE /\ c.result = TRUE
                /\ c.saves = 1
                /\ DOMAIN mappings = DOMAIN c.startMappings \ {c.rig}
                /\ \A k \in DOMAIN mappings : mappings[k] = c.startMappings[k]
                /\ \A ch \in guild : ch.id # c.startMappings[c.rig]
                /\ c.deleted =
                     Cardinality({ch \in c.startGuild :
                                     ch.id = c.startMappings[c.rig]})
                /\ lastWriteOk => (file.state = "ok" /\ file.content = mappings)

C4_Step ==
    \A s \in DOMAIN calls :
        (Returns(s) /\ calls'[s].op = "delete" /\ calls'[s].result = FALSE)
        => UNCHANGED <<mappings, file, guild>>

\* C4: delete_channel for a rig without a mapping entry returns False and
\* changes neither the mapping, the file nor the guild; for a rig with an entry
\* it deletes the channel of that id if the guild has it, removes the entry
\* (and no other), saves once, and returns True.
C4_DeleteChannel == []C4_State /\ [][C4_Step]_vars

C4_Witness ==
    \E s \in DOMAIN calls :
        /\ calls[s].op = "delete" /\ calls[s].pc = "returned"
        /\ calls[s].result = TRUE
        /\ calls[s].deleted = 1
        /\ calls[s].chan \in calls[s].startGuild
        /\ calls[s].chan \notin guild

\* C5: sanitizing a sanitized name yields the same name.
C5_Idempotent == sPc = "twice" => sOut2 = sOut

\* ^gt-[a-z0-9_-]*$
MatchesChannelPattern(str) ==
    /\ Len(str) >= 3
    /\ SubSeq(str, 1, 3) = <<"g", "t", "-">>
    /\ \A i \in 4..Len(str) :
         str[i] \in AsciiLower \cup AsciiDigits \cup {"-", "_"}

\* C6: every sanitized name is "gt-" followed only by a-z, 0-9, hyphen and
\* underscore.
C6_Charset == sPc = "once" => MatchesChannelPattern(sOut)

\* C7: while a resolve or delete_channel call is suspended at an await (where
\* a cancellation takes effect), the file is not a partially written one, and
\* it holds the in-memory mapping if the last write succeeded.
C7_FileComplete ==
    \A s \in DOMAIN calls :
        calls[s].pc \in Suspended \cup {"cancelled"}
        => /\ file.state # "partial"
           /\ lastWriteOk => FileMapping = mappings

\* C8: a send_discord_message request that fails (a required argument missing
\* or empty, no text channel of that name, a transport error) ends with a text
\* response, never with an exception raised by the handler.
C8_FailuresAreText ==
    (tPc = "done" /\ tReq.name = "send_discord_message")
    => tResp.kind = "text"

(***************************************************************************)
(* Properties of format_event.                                             *)
(***************************************************************************)
\* the kind names format_event knows, alias included
RecognizedKinds == {KindNudge, KindBroadcast, KindMail, KindConvoyUpdate,
                    KindConvoy, KindEscalation, KindHandoff, KindCompletion}

\* C9: with a kind that is no recognized name, format_event does not raise and
\* returns the generic message: the title supplied or "Gas Town Event", the
\* message supplied or the empty string as description, the default colour,
\* no field list, and the footer "Rig: {rig}" exactly when a rig is supplied
\* and not empty.
C9_UnknownKindIsGeneric ==
    (fPc = "done" /\ Lower(fKind) \notin RecognizedKinds)
    => /\ fOut.kind = "embed"
       /\ fOut.embed.title =
            (IF "title" \in DOMAIN fArgs THEN fArgs["title"]
             ELSE PyStr(<<"G", "a", "s", " ", "T", "o", "w", "n", " ",
                        "E", "v", "e", "n", "t">>))
       /\ fOut.embed.description =
            (IF "message" \in DOMAIN fArgs THEN fArgs["message"]
             ELSE PyStr(<<>>))
       /\ fOut.embed.color = 5793266
       /\ fOut.embed.timestamp = IsoFormat(PyDatetime(fNow))
       /\ "fields" \notin DOMAIN fOut.embed
       /\ IF "rig" \in DOMAIN fArgs /\ fArgs["rig"].s # <<>>
          THEN fOut.embed.footer.text =
                 PyStr(<<"R", "i", "g", ":", " ">> \o fArgs["rig"].s)
          ELSE "footer" \notin DOMAIN fOut.embed

C9_Witness ==
    /\ fPc = "done"
    /\ fKind = KindFrobnicate
    /\ DOMAIN fArgs = {"message", "rig"}
    /\ fOut.kind = "embed"
    /\ fOut.embed.title = PyStr(DefaultTitle)

\* the fields the table of the formatters documents: required, optional
DocumentedRequired(f) == Required[f]
DocumentedOptional(f) ==
    CASE f = "nudge" -> {"rig", "timestamp"}
      [] f = "broadcast" -> {"rig", "target_scope", "timestamp"}
      [] f = "mail" -> {"mail_id", "priority", "rig", "timestamp"}
      [] f = "convoy_update" -> {"completed", "total", "rig", "timestamp"}
      [] f = "escalation" -> {"bead_id", "rig", "timestamp"}
      [] f = "handoff" -> {"hooked_work", "rig", "timestamp"}
      [] OTHER -> {"rig", "timestamp"}

\* the formatter a recognized kind name stands for
KindOf(kind) ==
    CASE kind = KindNudge -> "nudge"
      [] kind = KindBroadcast -> "broadcast"
      [] kind = KindMail -> "mail"
      [] kind \in {KindConvoyUpdate, KindConvoy} -> "convoy_update"
      [] kind = KindEscalation -> "escalation"
      [] kind = KindHandoff -> "handoff"
      [] OTHER -> "completion"

\* C10: format_event with a recognized kind name, that kind's required fields
\* and any of its documented optional fields returns a message and does not
\* raise; a Mail message has no footer.
C10_DocumentedFieldsAccepted ==
    (/\ fPc = "done"
     /\ Lower(fKind) \in RecognizedKinds
     /\ DocumentedRequired(KindOf(Lower(fKind))) \subseteq DOMAIN fArgs
     /\ DOMAIN fArgs \subseteq DocumentedRequired(KindOf(Lower(fKind)))
                               \cup DocumentedOptional(KindOf(Lower(fKind))))
    => /\ fOut.kind = "embed"
       /\ KindOf(Lower(fKind)) = "mail" => "footer" \notin DOMAIN fOut.embed

\* the names of the entries of an embed's field list, in order; no list, no
\* names
FieldNames(embed) ==
    IF "fields" \in DOMAIN embed
    THEN [i \in 1..Len(embed.fields) |-> embed.fields[i].name]
    ELSE <<>>

\* the entries the table documents for the required fields of each kind
RequiredEntries(f) ==
    CASE f = "nudge" -> <<"From", "To">>
      [] f = "broadcast" -> <<"From", "Scope">>
      [] f = "mail" -> <<"From", "To">>
      [] f = "convoy_update" -> <<"Convoy ID", "Status">>
      [] f = "escalation" -> <<"From", "Severity">>
      [] f = "handoff" -> <<"From">>
      [] f = "completion" -> <<"Agent", "Bead ID">>
      [] OTHER -> <<>>

\* the call supplied exactly the required fields of its kind; for a name that
\* is no recognized kind these are the title and the message of the generic
\* formatter
RequiredOnly ==
    IF Lower(fKind) \in RecognizedKinds
    THEN DOMAIN fArgs = Required[KindOf(Lower(fKind))]
    ELSE DOMAIN fArgs = {"title", "message"}

\* C11: formatting with only the required fields of a kind gives a message
\* whose field list holds exactly the entries documented for the required
\* fields, in the documented order, and no entry of an optional field; the
\* generic message has no entries.
C11_RequiredOnlyFields ==
    (fPc = "done" /\ RequiredOnly)
    => /\ fOut.kind = "embed"
       /\ FieldNames(fOut.embed) =
            RequiredEntries(IF Lower(fKind) \in RecognizedKinds
                            THEN KindOf(Lower(fKind)) ELSE "generic")

C11_Witness ==
    /\ fPc = "done"
    /\ fKind = KindEscalation
    /\ DOMAIN fArgs = Required["escalation"]
    /\ fOut.kind = "embed"
    /\ FieldNames(fOut.embed) = <<"From", "Severity">>

\* the kind of message a call asks for: a formatter's name, or "generic"
MessageKind ==
    IF Lower(fKind) \in RecognizedKinds THEN KindOf(Lower(fKind)) ELSE "generic"

\* the footer text documented for a message without a rig: "Town-wide" for a
\* broadcast, "Gas Town" for the others
DocumentedDefaultFooter(f) ==
    IF f = "broadcast"
    THEN PyStr(<<"T", "o", "w", "n", "-", "w", "i", "d", "e">>)
    ELSE PyStr(<<"G", "a", "s", " ", "T", "o", "w", "n">>)

\* C12: every message except a Mail has a footer; its text is "Rig: {rig}"
\* when a (non-empty) rig is supplied and the default of the kind when no rig
\* is supplied; a Mail message has no footer.
C12_Footer ==
    (fPc = "done" /\ fOut.kind = "embed")
    => IF MessageKind = "mail"
       THEN "footer" \notin DOMAIN fOut.embed
       ELSE /\ "footer" \in DOMAIN fOut.embed
            /\ ("rig" \in DOMAIN fArgs /\ fArgs["rig"].s # <<>>)
                 => fOut.embed.footer.text =
                      PyStr(<<"R", "i", "g", ":", " ">> \o fArgs["rig"].s)
            /\ "rig" \notin DOMAIN fArgs
                 => fOut.embed.footer.text = DocumentedDefaultFooter(MessageKind)

\* the optional fields of a kind that contribute output: those with an entry
\* of their own in the field list, and the rig of the footer
OptionalEntry(f) ==
    CASE f = "mail" -> [priority |-> "Priority", mail_id |-> "Mail ID"]
      [] f = "escalation" -> [bead_id |-> "Related Bead"]
      [] f = "handoff" -> [hooked_work |-> "Hooked Work"]
      [] OTHER -> EmptyDict

ContributingOptional(f) ==
    DOMAIN OptionalEntry(f) \cup (IF f = "mail" THEN {} ELSE {"rig"})

\* C13: an optional field supplied as the empty string renders differently
\* from the same call with the field omitted, and a supplied field with an
\* entry of its own has that entry in the field list.
C13_EmptyIsNotAbsent ==
    (fPc = "done" /\ fOut.kind = "embed")
    => \A k \in ContributingOptional(MessageKind) \cap DOMAIN fArgs :
          /\ fArgs[k] = PyStr(<<>>)
               => fOut # format_event(fKind, DictDel(fArgs, k), PyDatetime(fNow))
          /\ k \in DOMAIN OptionalEntry(MessageKind)
               => \E i \in 1..Len(fOut.embed.fields) :
                     fOut.embed.fields[i].name = OptionalEntry(MessageKind)[k]

\* a bar of exactly 10 segments, the first `filled' of them filled
DocumentedBar(filled) ==
    <<"[">> \o [i \in 1..10 |-> IF i <= filled THEN BarFilled[1] ELSE BarEmpty[1]]
            \o <<"]">>

\* floor(completed * 100 / total), and 0 when total = 0
DocumentedPercentage(completed, total) ==
    IF total = 0 THEN 0 ELSE (completed * 100) \div total

\* C14: a ConvoyUpdate given completed >= 0 and total >= 0 has a Progress
\* entry "{bar} {completed}/{total} ({pct}%)" with pct the floor of
\* completed * 100 / total (0 when total = 0) and a bar of 10 segments of
\* which floor(pct / 10) are filled.
C14_Progress ==
    (/\ fPc = "done" /\ fOut.kind = "embed"
     /\ MessageKind = "convoy_update"
     /\ {"completed", "total"} \subseteq DOMAIN fArgs
     /\ fArgs["completed"].i >= 0 /\ fArgs["total"].i >= 0)
    => LET completed == fArgs["completed"].i
           total == fArgs["total"].i
           pct == DocumentedPercentage(completed, total)
       IN  /\ Len(fOut.embed.fields) = 3
           /\ fOut.embed.fields[3].name = "Progress"
           /\ fOut.embed.fields[3].value =
                PyStr(DocumentedBar(pct \div 10) \o <<" ">>
                      \o IntToStr(completed) \o <<"/">> \o IntToStr(total)
                      \o <<" ", "(">> \o IntToStr(pct) \o <<"%", ")">>)

\* the argument that becomes the description of a Mail, an Escalation, a
\* Handoff
DescriptionInput(f) == IF f = "escalation" THEN "details" ELSE "message"

\* C15: a Mail, Escalation or Handoff whose description input is longer than
\* 4096 characters has as description exactly the first 4096 characters of
\* it; an input of at most 4096 characters is the description unchanged; the
\* call is not rejected for the length.
C15_Truncation ==
    (/\ fPc = "done"
     /\ MessageKind \in {"mail", "escalation", "handoff"}
     /\ DocumentedRequired(MessageKind) \subseteq DOMAIN fArgs
     /\ DOMAIN fArgs \subseteq DocumentedRequired(MessageKind)
                               \cup DocumentedOptional(MessageKind)
     /\ MessageKind = "mail" => "rig" \notin DOMAIN fArgs)
    => LET input == fArgs[DescriptionInput(MessageKind)].s
       IN  /\ fOut.kind = "embed"
           /\ fOut.embed.description.t = "str"
           /\ IF Len(input) > 4096
              THEN /\ Len(fOut.embed.description.s) = 4096
                   /\ fOut.embed.description.s = SubSeq(input, 1, 4096)
              ELSE fOut.embed.description.s = input

C15_Witness ==
    /\ fPc = "done"
    /\ fKind = KindEscalation
    /\ "details" \in DOMAIN fArgs
    /\ Len(fArgs["details"].s) = 4097
    /\ fOut.kind = "embed"
    /\ Len(fOut.embed.description.s) = 4096

\* C16: every message returned, of every kind, has a description of at most
\* 4096 characters.
C16_DescriptionBounded ==
    (fPc = "done" /\ fOut.kind = "embed")
    => Len(fOut.embed.description.s) <= 4096

\* no two text channels of the guild have the same name
C17_State ==
    \A c \in TextChannels(guild), d \in TextChannels(guild) :
        c.name = d.name => c = d

\* a channel that a step adds to the guild is a text channel whose name no
\* text channel of the guild had
C17_Step ==
    \A ch \in guild' \ guild :
        /\ ch.kind = "text"
        /\ \A o \in TextChannels(guild) : o.name # ch.name

\* C17: with calls that do not overlap, whatever fails and whichever rigs
\* share a channel name, the resolver never creates a channel whose name a
\* text channel of the guild already has, and the guild never holds two text
\* channels of one name.
C17_NoDuplicateNames == []C17_State /\ [][C17_Step]_vars

\* "My Rig" was resolved, without creating anything, to the channel that an
\* earlier call had created for "my-rig"
C17_Witness ==
    \E s \in DOMAIN calls :
        /\ calls[s].op = "resolve"
        /\ calls[s].pc = "returned"
        /\ calls[s].rig = MyRigSpaced
        /\ calls[s].created = 0
        /\ calls[s].result \in guild
        /\ calls[s].result.id \notin InitIds
        /\ calls[s].result.name = GtMyRig
        /\ MyRig \in DOMAIN mappings
        /\ mappings[MyRig] = calls[s].result.id
        /\ C17_State

====
